---------------------------- MODULE Spec2Model ----------------------------
(***************************************************************************)
(* Jobly: the partial-update SQL fragment builder (helpers/sql.js), the    *)
(* model classes that splice its output into UPDATE statements            *)
(* (models/user.js, models/job.js), and the middleware and routes that    *)
(* guard them (middleware/auth.js, routes/*.js, app.js).                    *)
(*                                                                         *)
(* JavaScript strings are sequences of one-character strings, so that the  *)
(* text the code builds ('"first_name"=$1, "age"=$2') is really built and  *)
(* can be taken apart again by the properties and by the datastore.        *)
(***************************************************************************)
EXTENDS Integers, Sequences, FiniteSets

VARIABLES
    dataToUpdate,   \* argument 1 of the sqlForPartialUpdate call under study
    jsToSql,        \* argument 2 of the sqlForPartialUpdate call under study
    sqlCalls,       \* outcomes of the calls made so far on those arguments
    users,          \* table users:     username -> row
    jobs,           \* table jobs:      id -> row
    companies,      \* table companies: handle -> row
    call,           \* the last model-class call: operation, arguments, outcome, statements
    nOps,           \* number of model-class calls made, or of requests received, so far
    supplied,       \* username -> the password last supplied for it, <<pw>> or <<>>
    http            \* the HTTP request being served: where it is, what was done for it

vars == <<dataToUpdate, jsToSql, sqlCalls, users, jobs, companies, call, nOps,
          supplied, http>>

----------------------------------------------------------------------------
(* Bounds of the model.                                                    *)

\* most keys an update request carries in the fragment-builder harness
MaxKeys == 2
\* most calls of sqlForPartialUpdate made on one pair of arguments
MaxCalls == 2
\* most model-class calls in one behaviour
MaxOps == 1
\* most calls of the User class made one after the other
MaxUserOps == 2
\* most HTTP requests served one after the other
MaxRequests == 1

----------------------------------------------------------------------------
(* JavaScript values.  type is one of string, number, boolean, null,       *)
(* undefined, function, object; str carries a string's characters (or a    *)
(* function's source text), num a number (or 1/0 for true/false), props an *)
(* object's own properties.                                                *)

Str(s) == [type |-> "string", str |-> s, num |-> 0, props |-> <<>>]
Num(n) == [type |-> "number", str |-> <<>>, num |-> n, props |-> <<>>]
Bool(b) == [type |-> "boolean", str |-> <<>>, num |-> IF b THEN 1 ELSE 0, props |-> <<>>]
Null == [type |-> "null", str |-> <<>>, num |-> 0, props |-> <<>>]
Undefined == [type |-> "undefined", str |-> <<>>, num |-> 0, props |-> <<>>]
Fn(src) == [type |-> "function", str |-> src, num |-> 0, props |-> <<>>]
Obj(props) == [type |-> "object", str |-> <<>>, num |-> 0, props |-> props]

Digits == <<"0", "1", "2", "3", "4", "5", "6", "7", "8", "9">>

IsDigit(c) == c \in {"0", "1", "2", "3", "4", "5", "6", "7", "8", "9"}

DigitVal(c) ==
    CASE c = "0" -> 0 [] c = "1" -> 1 [] c = "2" -> 2 [] c = "3" -> 3 [] c = "4" -> 4
      [] c = "5" -> 5 [] c = "6" -> 6 [] c = "7" -> 7 [] c = "8" -> 8 [] c = "9" -> 9

\* Number::toString for a non-negative integer: its decimal digits.
RECURSIVE NatToString(_)
NatToString(n) ==
    IF n < 10 THEN <<Digits[n + 1]>>
    ELSE NatToString(n \div 10) \o <<Digits[(n % 10) + 1]>>

\* The value of a string of decimal digits.
RECURSIVE StringToNat(_)
StringToNat(s) ==
    IF s = <<>> THEN 0
    ELSE 10 * StringToNat(SubSeq(s, 1, Len(s) - 1)) + DigitVal(s[Len(s)])

\* ToString, as a template literal `${v}` applies it.
JsToString(v) ==
    CASE v.type = "string" -> v.str
      [] v.type = "number" ->
            IF v.num < 0 THEN <<"-">> \o NatToString(0 - v.num) ELSE NatToString(v.num)
      [] v.type = "boolean" ->
            IF v.num = 1 THEN <<"t", "r", "u", "e">> ELSE <<"f", "a", "l", "s", "e">>
      [] v.type = "null" -> <<"n", "u", "l", "l">>
      [] v.type = "undefined" -> <<"u", "n", "d", "e", "f", "i", "n", "e", "d">>
      [] v.type = "function" -> v.str
      [] v.type = "object" ->
            <<"[", "o", "b", "j", "e", "c", "t", " ", "O", "b", "j", "e", "c", "t", "]">>

\* ToBoolean, as ||, ! and if apply it.
Truthy(v) ==
    CASE v.type = "string" -> v.str # <<>>
      [] v.type = "number" -> v.num # 0
      [] v.type = "boolean" -> v.num = 1
      [] v.type = "null" -> FALSE
      [] v.type = "undefined" -> FALSE
      [] v.type = "function" -> TRUE
      [] v.type = "object" -> TRUE

----------------------------------------------------------------------------
(* JavaScript plain objects: the own properties in insertion order, as a   *)
(* sequence of [key, val] with distinct keys.                              *)

\* One own property.
Prop(k, v) == [key |-> k, val |-> v]

OwnKeySet(obj) == {obj[i].key : i \in 1..Len(obj)}

HasOwn(obj, k) == \E i \in 1..Len(obj) : obj[i].key = k

OwnVal(obj, k) == obj[CHOOSE i \in 1..Len(obj) : obj[i].key = k].val

\* A canonical array index ("0", "7", "10"; not "", "07", "a1").
IsArrayIndex(k) ==
    /\ Len(k) >= 1
    /\ \A i \in 1..Len(k) : IsDigit(k[i])
    /\ (Len(k) = 1 \/ k[1] # "0")

\* The positions of obj's properties in OrdinaryOwnPropertyKeys order: the
\* array-index keys in ascending numeric order, then the other keys in
\* insertion order.
RECURSIVE SortIndexKeys(_, _)
SortIndexKeys(obj, left) ==
    IF left = {} THEN <<>>
    ELSE LET i == CHOOSE i \in left :
                      \A j \in left : StringToNat(obj[i].key) <= StringToNat(obj[j].key)
         IN  <<i>> \o SortIndexKeys(obj, left \ {i})

RECURSIVE InsertionOrder(_, _)
InsertionOrder(obj, i) ==
    IF i > Len(obj) THEN <<>>
    ELSE (IF IsArrayIndex(obj[i].key) THEN <<>> ELSE <<i>>) \o InsertionOrder(obj, i + 1)

OwnPropertyOrder(obj) ==
    SortIndexKeys(obj, {i \in 1..Len(obj) : IsArrayIndex(obj[i].key)})
        \o InsertionOrder(obj, 1)

\* Object.keys(obj)
ObjectKeys(obj) ==
    LET ord == OwnPropertyOrder(obj) IN [i \in 1..Len(ord) |-> obj[ord[i]].key]

\* Object.values(obj)
ObjectValues(obj) ==
    LET ord == OwnPropertyOrder(obj) IN [i \in 1..Len(ord) |-> obj[ord[i]].val]

\* Source text of the built-in functions an object literal inherits.
ObjectFnSource ==
    <<"f", "u", "n", "c", "t", "i", "o", "n", " ", "O", "b", "j", "e", "c", "t",
      "(", ")", " ", "{", " ", "[", "n", "a", "t", "i", "v", "e", " ", "c", "o",
      "d", "e", "]", " ", "}">>

\* Object.prototype, as far as the model's keys reach into it.
ObjectPrototype ==
    <<[key |-> <<"c", "o", "n", "s", "t", "r", "u", "c", "t", "o", "r">>,
       val |-> Fn(ObjectFnSource)]>>

\* obj[k]: the own property, else the inherited one, else undefined.
Get(obj, k) ==
    IF HasOwn(obj, k) THEN OwnVal(obj, k)
    ELSE IF HasOwn(ObjectPrototype, k) THEN OwnVal(ObjectPrototype, k)
    ELSE Undefined

\* obj with obj[k] = v assigned: in place when k is an own key, appended otherwise.
Put(obj, k, v) ==
    IF HasOwn(obj, k)
    THEN [i \in 1..Len(obj) |-> IF obj[i].key = k THEN [key |-> k, val |-> v] ELSE obj[i]]
    ELSE Append(obj, [key |-> k, val |-> v])

\* Join as cols.join() would do it: the default separator "," whatever sep is.
RECURSIVE JoinDefaultSeparator(_, _)
JoinDefaultSeparator(arr, sep) ==
    IF arr = <<>> THEN <<>>
    ELSE IF Len(arr) = 1 THEN arr[1]
    ELSE arr[1] \o <<",">> \o JoinDefaultSeparator(Tail(arr), sep)

\* Array.prototype.join(sep) on an array of strings.
RECURSIVE Join(_, _)
Join(arr, sep) ==
    IF arr = <<>> THEN <<>>
    ELSE IF Len(arr) = 1 THEN arr[1]
    ELSE arr[1] \o sep \o Join(Tail(arr), sep)

----------------------------------------------------------------------------
(* Reading a SET clause back, as the datastore does when it is handed the  *)
(* statement: the segments between ", ", and in each the quoted column     *)
(* name and the number of the $n placeholder.                              *)

\* The first position >= from where sep occurs in s, 0 when there is none.
RECURSIVE IndexOf(_, _, _)
IndexOf(s, sep, from) ==
    IF from + Len(sep) - 1 > Len(s) THEN 0
    ELSE IF SubSeq(s, from, from + Len(sep) - 1) = sep THEN from
    ELSE IndexOf(s, sep, from + 1)

\* The last position <= from where character c occurs in s, 0 when there is none.
RECURSIVE LastIndexFrom(_, _, _)
LastIndexFrom(s, c, from) ==
    IF from = 0 THEN 0
    ELSE IF s[from] = c THEN from
    ELSE LastIndexFrom(s, c, from - 1)

LastIndexOf(s, c) == LastIndexFrom(s, c, Len(s))

RECURSIVE Split(_, _)
Split(s, sep) ==
    LET at == IndexOf(s, sep, 1)
    IN  IF at = 0 THEN <<s>>
        ELSE <<SubSeq(s, 1, at - 1)>> \o Split(SubSeq(s, at + Len(sep), Len(s)), sep)

Segments(setCols) == Split(setCols, <<",", " ">>)

\* A string of digits that is the decimal form of a number >= 1.
IsPlaceholderNumber(t) ==
    /\ Len(t) >= 1
    /\ \A i \in 1..Len(t) : IsDigit(t[i])
    /\ t[1] # "0"

\* seg is "<col>"=$<n>
IsSegment(seg) ==
    LET q == LastIndexOf(seg, "\"")
    IN  /\ Len(seg) >= 1
        /\ seg[1] = "\""
        /\ q > 1
        /\ q + 2 < Len(seg)
        /\ seg[q + 1] = "="
        /\ seg[q + 2] = "$"
        /\ IsPlaceholderNumber(SubSeq(seg, q + 3, Len(seg)))

SegmentColumn(seg) == SubSeq(seg, 2, LastIndexOf(seg, "\"") - 1)

SegmentPlaceholder(seg) ==
    StringToNat(SubSeq(seg, LastIndexOf(seg, "\"") + 3, Len(seg)))

----------------------------------------------------------------------------
(* Outcome of a call: a returned value or a thrown error.                  *)

Return(v) == [kind |-> "return", error |-> "", message |-> <<>>, value |-> <<v>>]

Throw(name, msg) == [kind |-> "throw", error |-> name, message |-> msg, value |-> <<>>]

MsgNoData == <<"N", "o", " ", "d", "a", "t", "a">>

----------------------------------------------------------------------------
(* helpers/sql.js                                                          *)

\* The column name of a key: `jsToSql[colName] || colName`, as the template
\* literal renders it.
ColumnName(m, colName) ==
    LET looked == Get(m, colName)
    IN  IF Truthy(looked) THEN JsToString(looked) ELSE colName

\* The entry numbered from 0: "$" followed by idx instead of idx + 1.
ColSegmentFromZero(m, colName, idx) ==
    <<"\"">> \o ColumnName(m, colName) \o <<"\"", "=", "$">> \o NatToString(idx)

\* One entry of cols: `"${jsToSql[colName] || colName}"=$${idx + 1}`, idx 0-based.
ColSegment(m, colName, idx) ==
    <<"\"">> \o ColumnName(m, colName) \o <<"\"", "=", "$">> \o NatToString(idx + 1)

\* The values collected by a traversal of their own, in insertion order.
ResultValuesInsertionOrder(d) == [i \in 1..Len(d) |-> d[i].val]

\* The values entry of the returned record: Object.values(dataToUpdate).
ResultValues(d) == ObjectValues(d)

\* The builder without its guard against an empty request.
sqlForPartialUpdateNoGuard(d, m) ==
    LET keys == ObjectKeys(d)
        cols == [i \in 1..Len(keys) |-> ColSegment(m, keys[i], i - 1)]
    IN  Return([setCols |-> Join(cols, <<",", " ">>), values |-> ResultValues(d)])

\* The builder writing each value into the clause in place of its placeholder.
sqlForPartialUpdateInlined(d, m) ==
    LET keys == ObjectKeys(d)
        vals == ObjectValues(d)
        cols == [i \in 1..Len(keys) |->
                    <<"\"">> \o ColumnName(m, keys[i]) \o <<"\"", "=", "'">> \o JsToString(vals[i]) \o <<"'">>]
    IN  IF Len(keys) = 0 THEN Throw("BadRequestError", MsgNoData)
        ELSE Return([setCols |-> Join(cols, <<",", " ">>), values |-> ResultValues(d)])

sqlForPartialUpdate(d, m) ==
    LET keys == ObjectKeys(d)
    IN  IF Len(keys) = 0 THEN Throw("BadRequestError", MsgNoData)
        ELSE LET cols == [i \in 1..Len(keys) |-> ColSegment(m, keys[i], i - 1)]
             IN  Return([setCols |-> Join(cols, <<",", " ">>),
                         values |-> ResultValues(d)])

----------------------------------------------------------------------------
(* The datastore behind db.query.  A table is a set of rows, a row a       *)
(* function from column name to value.  A statement is the text the model  *)
(* class builds, cut where the code cuts it: the spliced SET clause and    *)
(* the WHERE placeholder are text; the fixed parts are named.              *)

S_username == <<"u", "s", "e", "r", "n", "a", "m", "e">>
S_password == <<"p", "a", "s", "s", "w", "o", "r", "d">>
S_first_name == <<"f", "i", "r", "s", "t", "_", "n", "a", "m", "e">>
S_last_name == <<"l", "a", "s", "t", "_", "n", "a", "m", "e">>
S_email == <<"e", "m", "a", "i", "l">>
S_is_admin == <<"i", "s", "_", "a", "d", "m", "i", "n">>
S_firstName == <<"f", "i", "r", "s", "t", "N", "a", "m", "e">>
S_lastName == <<"l", "a", "s", "t", "N", "a", "m", "e">>
S_isAdmin == <<"i", "s", "A", "d", "m", "i", "n">>
S_id == <<"i", "d">>
S_title == <<"t", "i", "t", "l", "e">>
S_salary == <<"s", "a", "l", "a", "r", "y">>
S_equity == <<"e", "q", "u", "i", "t", "y">>
S_company_handle == <<"c", "o", "m", "p", "a", "n", "y", "_", "h", "a", "n", "d", "l", "e">>
S_companyHandle == <<"c", "o", "m", "p", "a", "n", "y", "H", "a", "n", "d", "l", "e">>
S_company == <<"c", "o", "m", "p", "a", "n", "y">>
S_handle == <<"h", "a", "n", "d", "l", "e">>
S_name == <<"n", "a", "m", "e">>
S_description == <<"d", "e", "s", "c", "r", "i", "p", "t", "i", "o", "n">>
S_num_employees == <<"n", "u", "m", "_", "e", "m", "p", "l", "o", "y", "e", "e", "s">>
S_numEmployees == <<"n", "u", "m", "E", "m", "p", "l", "o", "y", "e", "e", "s">>
S_logo_url == <<"l", "o", "g", "o", "_", "u", "r", "l">>
S_logoUrl == <<"l", "o", "g", "o", "U", "r", "l">>

UserColumns == {S_username, S_password, S_first_name, S_last_name, S_email, S_is_admin}

JobColumns == {S_id, S_title, S_salary, S_equity, S_company_handle}

CompanyColumns == {S_handle, S_name, S_description, S_num_employees, S_logo_url}

Col(c, as) == [col |-> c, as |-> as]

\* A result row: the selected columns under their aliases, in select order.
Project(row, returning) ==
    [i \in 1..Len(returning) |-> Prop(returning[i].as, row[returning[i].col])]

RECURSIVE SetToSeq(_)
SetToSeq(S) ==
    IF S = {} THEN <<>>
    ELSE LET x == CHOOSE x \in S : TRUE IN <<x>> \o SetToSeq(S \ {x})

\* "$<n>" with n >= 1
IsPlaceholder(t) ==
    /\ Len(t) >= 2
    /\ t[1] = "$"
    /\ IsPlaceholderNumber(Tail(t))

PlaceholderNumber(t) == StringToNat(Tail(t))

\* The statement is one the datastore can run: a well-formed SET clause over
\* columns of the table, no column assigned twice, and the placeholders
\* $1..$k used with exactly k values bound.
UpdateAccepted(columns, stmt) ==
    LET segs == Segments(stmt.set)
    IN  /\ \A i \in 1..Len(segs) :
              /\ IsSegment(segs[i])
              /\ SegmentColumn(segs[i]) \in columns
        /\ \A i, j \in 1..Len(segs) :
              SegmentColumn(segs[i]) = SegmentColumn(segs[j]) => i = j
        /\ IsPlaceholder(stmt.where.placeholder)
        /\ LET used == {SegmentPlaceholder(segs[i]) : i \in 1..Len(segs)}
                          \cup {PlaceholderNumber(stmt.where.placeholder)}
           IN  used = 1..Len(stmt.values)

\* UPDATE <table> SET <set> WHERE <col> = <placeholder> RETURNING <returning>:
\* the error flag, the rows returned and the table afterwards.
DbUpdate(table, columns, stmt) ==
    IF ~UpdateAccepted(columns, stmt)
    THEN [error |-> TRUE, rows |-> <<>>, table |-> table]
    ELSE LET segs == Segments(stmt.set)
             key == stmt.values[PlaceholderNumber(stmt.where.placeholder)]
             hit == {r \in table : r[stmt.where.col] = key}
             Set(r) ==
                 [c \in columns |->
                     IF \E i \in 1..Len(segs) : SegmentColumn(segs[i]) = c
                     THEN stmt.values[SegmentPlaceholder(
                              segs[CHOOSE i \in 1..Len(segs) : SegmentColumn(segs[i]) = c])]
                     ELSE r[c]]
             updated == {Set(r) : r \in hit}
         IN  [error |-> FALSE,
              rows |-> [i \in 1..Cardinality(updated) |->
                           Project(SetToSeq(updated)[i], stmt.returning)],
              table |-> (table \ hit) \cup updated]

\* SELECT <returning> FROM <table> WHERE <col> = $1: the rows returned.
DbSelect(table, stmt) ==
    LET hit == {r \in table : r[stmt.where.col] = stmt.values[1]}
    IN  [i \in 1..Cardinality(hit) |-> Project(SetToSeq(hit)[i], stmt.returning)]

\* rows[0]: the first row as <<row>>, <<>> when rows is empty (undefined).
FirstRow(rows) == IF Len(rows) = 0 THEN <<>> ELSE <<rows[1]>>

\* delete obj[k]
Delete(obj, k) ==
    LET keep == {i \in 1..Len(obj) : obj[i].key # k}
        Nth(n) == CHOOSE i \in keep : Cardinality({j \in keep : j < i}) = n - 1
    IN  [n \in 1..Cardinality(keep) |-> obj[Nth(n)]]

\* The characters usernames are ordered by, in ascending order.
Collation ==
    <<"0", "1", "2", "3", "4", "5", "6", "7", "8", "9", "a", "d", "m", "u">>

CharRank(c) == CHOOSE i \in 1..Len(Collation) : Collation[i] = c

\* s sorts before t
RECURSIVE StrLess(_, _)
StrLess(s, t) ==
    IF t = <<>> THEN FALSE
    ELSE IF s = <<>> THEN TRUE
    ELSE IF s[1] = t[1] THEN StrLess(Tail(s), Tail(t))
    ELSE CharRank(s[1]) < CharRank(t[1])

\* The rows of a set in ascending order of a string column.
RECURSIVE OrderBy(_, _)
OrderBy(rows, col) ==
    IF rows = {} THEN <<>>
    ELSE LET first == CHOOSE r \in rows :
                          \A q \in rows \ {r} : ~StrLess(q[col].str, r[col].str)
         IN  <<first>> \o OrderBy(rows \ {first}, col)

\* SELECT <returning> FROM <table> ORDER BY <col>: the rows returned.
DbSelectAll(table, stmt) ==
    LET sorted == OrderBy(table, stmt.orderBy)
    IN  [i \in 1..Len(sorted) |-> Project(sorted[i], stmt.returning)]

\* INSERT INTO <table> (<columns>) VALUES ($1..$n) RETURNING <returning>:
\* the row returned and the table afterwards.
DbInsert(table, stmt) ==
    LET row == [c \in {stmt.columns[i] : i \in 1..Len(stmt.columns)} |->
                   stmt.values[CHOOSE i \in 1..Len(stmt.columns) : stmt.columns[i] = c]]
    IN  [rows |-> <<Project(row, stmt.returning)>>, table |-> table \cup {row}]

\* DELETE FROM <table> WHERE <col> = $1 RETURNING <returning>: the rows
\* returned and the table afterwards.
DbDelete(table, stmt) ==
    LET hit == {r \in table : r[stmt.where.col] = stmt.values[1]}
    IN  [rows |-> [i \in 1..Cardinality(hit) |->
                      Project(SetToSeq(hit)[i], stmt.returning)],
         table |-> table \ hit]

----------------------------------------------------------------------------
(* bcrypt.  A hash is "$2b$" <salt> "$" <digest>; the digest of a password *)
(* stands as the password's own characters, so hashes of different         *)
(* passwords differ and compare() can be decided.  The salt is drawn anew  *)
(* for every hash.                                                         *)

Salts == {<<"s", "1">>, <<"s", "2">>}

BcryptPrefix == <<"$", "2", "b", "$">>

BcryptHash(pw, salt) == BcryptPrefix \o salt \o <<"$">> \o pw

\* hash is prefix, salt, "$", digest for one of the salts
IsBcryptHash(hash) ==
    \E salt \in Salts :
        LET head == BcryptPrefix \o salt \o <<"$">>
        IN  /\ Len(hash) >= Len(head)
            /\ SubSeq(hash, 1, Len(head)) = head

\* bcrypt.compare(pw, hash): hash is a hash, and hashing pw with the salt
\* of hash gives hash again.
BcryptCompare(pw, hash) ==
    /\ IsBcryptHash(hash)
    /\ \E salt \in Salts : BcryptHash(pw, salt) = hash

----------------------------------------------------------------------------
(* models/user.js                                                          *)

MsgNoUser(username) ==
    <<"N", "o", " ", "u", "s", "e", "r", ":", " ">> \o JsToString(username)

\* What a call of a model class did: the data argument as the call left it,
\* the outcome, the statements handed to db.query, and the table afterwards.
Done(data, outcome, statements, table) ==
    [data |-> data, outcome |-> outcome, statements |-> statements, table |-> table]

UserSelectList ==
    <<Col(S_username, S_username), Col(S_first_name, S_firstName),
      Col(S_last_name, S_lastName), Col(S_email, S_email), Col(S_is_admin, S_isAdmin)>>

\* User.get(username) on the users table.
UserGetCall(username, table) ==
    LET query == [verb |-> "SELECT", table |-> "users", set |-> <<>>,
                  where |-> [col |-> S_username, placeholder |-> <<"$", "1">>],
                  returning |-> UserSelectList, values |-> <<username>>]
        user == FirstRow(DbSelect(table, query))
    IN  IF user = <<>>
        THEN Done(<<>>, Throw("NotFoundError", MsgNoUser(username)), <<query>>, table)
        ELSE Done(<<>>, Return(Obj(user[1])), <<query>>, table)

\* The table of User.update with lastName sent to the first_name column.
UserJsToSqlLastNameAsFirst ==
    <<Prop(S_firstName, Str(S_first_name)), Prop(S_lastName, Str(S_first_name)),
      Prop(S_isAdmin, Str(S_is_admin))>>

\* The table handed to sqlForPartialUpdate by User.update.
UserJsToSql ==
    <<Prop(S_firstName, Str(S_first_name)), Prop(S_lastName, Str(S_last_name)),
      Prop(S_isAdmin, Str(S_is_admin))>>

\* "$" + values.length, the placeholder of the last SET value.
VarIdxOfLastValue(values) == <<"$">> \o NatToString(Len(values))

\* "$" + (values.length + 1)
usernameVarIdx(values) == <<"$">> \o NatToString(Len(values) + 1)

\* [...values, username]
BoundValues(values, ident) == values \o <<ident>>

\* User.update(username, data) reporting success when no row matched.
UserUpdateNoRowCheck(username, data, salt, table) ==
    LET data1 == IF Truthy(Get(data, S_password))
                 THEN Put(data, S_password, Str(BcryptHash(Get(data, S_password).str, salt)))
                 ELSE data
        built == sqlForPartialUpdate(data1, UserJsToSql)
    IN  IF built.kind = "throw" THEN Done(data1, built, <<>>, table)
        ELSE LET querySql ==
                     [verb |-> "UPDATE", table |-> "users", set |-> built.value[1].setCols,
                      where |-> [col |-> S_username,
                                 placeholder |-> usernameVarIdx(built.value[1].values)],
                      returning |-> UserSelectList,
                      values |-> BoundValues(built.value[1].values, username)]
                 result == DbUpdate(table, UserColumns, querySql)
             IN  IF result.error
                 THEN Done(data1, Throw("DatabaseError", <<>>), <<querySql>>, table)
                 ELSE Done(data1, Return(Undefined), <<querySql>>, result.table)

\* User.update(username, data) on the users table; salt is the salt bcrypt
\* draws if it is asked for a hash.
UserUpdateCall(username, data, salt, table) ==
    LET data1 == IF Truthy(Get(data, S_password))
                 THEN Put(data, S_password, Str(BcryptHash(Get(data, S_password).str, salt)))
                 ELSE data
        built == sqlForPartialUpdate(data1, UserJsToSql)
    IN  IF built.kind = "throw" THEN Done(data1, built, <<>>, table)
        ELSE LET setCols == built.value[1].setCols
                 values == built.value[1].values
                 querySql == [verb |-> "UPDATE", table |-> "users", set |-> setCols,
                              where |-> [col |-> S_username,
                                         placeholder |-> usernameVarIdx(values)],
                              returning |-> UserSelectList,
                              values |-> BoundValues(values, username)]
                 result == DbUpdate(table, UserColumns, querySql)
                 user == FirstRow(result.rows)
             IN  IF result.error
                 THEN Done(data1, Throw("DatabaseError", <<>>), <<querySql>>, table)
                 ELSE IF user = <<>>
                 THEN Done(data1, Throw("NotFoundError", MsgNoUser(username)),
                           <<querySql>>, result.table)
                 ELSE Done(data1, Return(Obj(Delete(user[1], S_password))),
                           <<querySql>>, result.table)

MsgInvalidLogin == <<"I", "n", "v", "a", "l", "i", "d", " ", "u", "s", "e", "r", "n", "a", "m", "e", "/", "p", "a", "s", "s", "w", "o", "r", "d">>

UserSelectListWithPassword ==
    <<Col(S_username, S_username), Col(S_password, S_password),
      Col(S_first_name, S_firstName), Col(S_last_name, S_lastName),
      Col(S_email, S_email), Col(S_is_admin, S_isAdmin)>>

\* User.authenticate(username, password) returning every user it finds.
UserAuthenticateNoCompare(username, password, table) ==
    LET query == [verb |-> "SELECT", table |-> "users", set |-> <<>>,
                  where |-> [col |-> S_username, placeholder |-> <<"$", "1">>],
                  returning |-> UserSelectListWithPassword, values |-> <<username>>]
        user == FirstRow(DbSelect(table, query))
    IN  IF user # <<>>
        THEN Done(<<>>, Return(Obj(Delete(user[1], S_password))), <<query>>, table)
        ELSE Done(<<>>, Throw("UnauthorizedError", MsgInvalidLogin), <<query>>, table)

\* User.authenticate(username, password) on the users table.
UserAuthenticateCall(username, password, table) ==
    LET query == [verb |-> "SELECT", table |-> "users", set |-> <<>>,
                  where |-> [col |-> S_username, placeholder |-> <<"$", "1">>],
                  returning |-> UserSelectListWithPassword, values |-> <<username>>]
        user == FirstRow(DbSelect(table, query))
    IN  IF user # <<>> /\ BcryptCompare(password.str, Get(user[1], S_password).str)
        THEN Done(<<>>, Return(Obj(Delete(user[1], S_password))), <<query>>, table)
        ELSE Done(<<>>, Throw("UnauthorizedError", MsgInvalidLogin), <<query>>, table)

MsgDuplicate(username) == <<"D", "u", "p", "l", "i", "c", "a", "t", "e", " ", "u", "s", "e", "r", "n", "a", "m", "e", ":", " ">> \o JsToString(username)

\* User.register(data) without the duplicate check.
UserRegisterUnchecked(data, salt, table) ==
    LET insert == [verb |-> "INSERT", table |-> "users",
                   columns |-> <<S_username, S_password, S_first_name, S_last_name,
                                 S_email, S_is_admin>>,
                   returning |-> UserSelectList,
                   values |-> <<Get(data, S_username),
                                Str(BcryptHash(Get(data, S_password).str, salt)),
                                Get(data, S_firstName), Get(data, S_lastName),
                                Get(data, S_email), Get(data, S_isAdmin)>>]
        result == DbInsert(table, insert)
    IN  Done(data, Return(Obj(result.rows[1])), <<insert>>, result.table)

\* User.register({ username, password, firstName, lastName, email, isAdmin })
\* on the users table; salt is the salt bcrypt draws for the hash.
UserRegisterCall(data, salt, table) ==
    LET username == Get(data, S_username)
        check == [verb |-> "SELECT", table |-> "users", set |-> <<>>,
                  where |-> [col |-> S_username, placeholder |-> <<"$", "1">>],
                  returning |-> <<Col(S_username, S_username)>>, values |-> <<username>>]
        hashedPassword == Str(BcryptHash(Get(data, S_password).str, salt))
        insert == [verb |-> "INSERT", table |-> "users",
                   columns |-> <<S_username, S_password, S_first_name, S_last_name,
                                 S_email, S_is_admin>>,
                   returning |-> UserSelectList,
                   values |-> <<username, hashedPassword, Get(data, S_firstName),
                                Get(data, S_lastName), Get(data, S_email),
                                Get(data, S_isAdmin)>>]
        result == DbInsert(table, insert)
    IN  IF FirstRow(DbSelect(table, check)) # <<>>
        THEN Done(data, Throw("BadRequestError", MsgDuplicate(username)), <<check>>, table)
        ELSE Done(data, Return(Obj(result.rows[1])), <<check, insert>>, result.table)

\* A JavaScript array: an object whose keys are the indices from 0.
Arr(items) == Obj([i \in 1..Len(items) |-> Prop(NatToString(i - 1), items[i])])

\* User.findAll() selecting every column.
UserFindAllEveryColumn(table) ==
    LET query == [verb |-> "SELECT", table |-> "users", orderBy |-> S_username,
                  returning |-> UserSelectListWithPassword, values |-> <<>>]
        rows == DbSelectAll(table, query)
    IN  Done(<<>>, Return(Arr([i \in 1..Len(rows) |-> Obj(rows[i])])), <<query>>, table)

\* User.findAll() on the users table.
UserFindAllCall(table) ==
    LET query == [verb |-> "SELECT", table |-> "users", orderBy |-> S_username,
                  returning |-> UserSelectList, values |-> <<>>]
        rows == DbSelectAll(table, query)
    IN  Done(<<>>, Return(Arr([i \in 1..Len(rows) |-> Obj(rows[i])])), <<query>>, table)

\* User.remove(username) on the users table.
UserRemoveCall(username, table) ==
    LET query == [verb |-> "DELETE", table |-> "users", set |-> <<>>,
                  where |-> [col |-> S_username, placeholder |-> <<"$", "1">>],
                  returning |-> <<Col(S_username, S_username)>>, values |-> <<username>>]
        result == DbDelete(table, query)
    IN  IF FirstRow(result.rows) = <<>>
        THEN Done(<<>>, Throw("NotFoundError", MsgNoUser(username)), <<query>>, table)
        ELSE Done(<<>>, Return(Undefined), <<query>>, result.table)

----------------------------------------------------------------------------
(* models/job.js                                                           *)

MsgNoJob(id) == <<"N", "o", " ", "j", "o", "b", ":", " ">> \o JsToString(id)

JobSelectList ==
    <<Col(S_id, S_id), Col(S_title, S_title), Col(S_salary, S_salary),
      Col(S_equity, S_equity), Col(S_company_handle, S_companyHandle)>>

CompanySelectList ==
    <<Col(S_handle, S_handle), Col(S_name, S_name), Col(S_description, S_description),
      Col(S_num_employees, S_numEmployees), Col(S_logo_url, S_logoUrl)>>

\* Job.get(id) on the jobs table, reading the companies table.
JobGetCall(id, table, companyTable) ==
    LET query == [verb |-> "SELECT", table |-> "jobs", set |-> <<>>,
                  where |-> [col |-> S_id, placeholder |-> <<"$", "1">>],
                  returning |-> JobSelectList, values |-> <<id>>]
        job == FirstRow(DbSelect(table, query))
    IN  IF job = <<>>
        THEN Done(<<>>, Throw("NotFoundError", MsgNoJob(id)), <<query>>, table)
        ELSE LET companyQuery ==
                     [verb |-> "SELECT", table |-> "companies", set |-> <<>>,
                      where |-> [col |-> S_handle, placeholder |-> <<"$", "1">>],
                      returning |-> CompanySelectList,
                      values |-> <<Get(job[1], S_companyHandle)>>]
                 company == FirstRow(DbSelect(companyTable, companyQuery))
             IN  Done(<<>>,
                      Return(Obj(Put(Delete(job[1], S_companyHandle), S_company,
                                     IF company = <<>> THEN Undefined
                                     ELSE Obj(company[1])))),
                      <<query, companyQuery>>, table)

\* "$" + (values.length + 1)
idVarIdx(values) == <<"$">> \o NatToString(Len(values) + 1)

\* Job.update(id, data) on the jobs table.
JobUpdateCall(id, data, table) ==
    LET built == sqlForPartialUpdate(data, <<>>)
    IN  IF built.kind = "throw" THEN Done(data, built, <<>>, table)
        ELSE LET setCols == built.value[1].setCols
                 values == built.value[1].values
                 querySql == [verb |-> "UPDATE", table |-> "jobs", set |-> setCols,
                              where |-> [col |-> S_id, placeholder |-> idVarIdx(values)],
                              returning |-> JobSelectList,
                              values |-> BoundValues(values, id)]
                 result == DbUpdate(table, JobColumns, querySql)
                 job == FirstRow(result.rows)
             IN  IF result.error
                 THEN Done(data, Throw("DatabaseError", <<>>), <<querySql>>, table)
                 ELSE IF job = <<>>
                 THEN Done(data, Throw("NotFoundError", MsgNoJob(id)),
                           <<querySql>>, result.table)
                 ELSE Done(data, Return(Obj(job[1])), <<querySql>>, result.table)

----------------------------------------------------------------------------
(* The calls of sqlForPartialUpdate under study: the arguments are drawn   *)
(* once, then the function is called on them up to MaxCalls times.         *)

K_f1 == <<"f", "1">>
K_jsF2 == <<"j", "s", "F", "2">>
K_fF2 == <<"f", "F", "2">>
K_firstName == <<"f", "i", "r", "s", "t", "N", "a", "m", "e">>
K_age == <<"a", "g", "e">>
K_2 == <<"2">>
K_10 == <<"1", "0">>
K_constructor == <<"c", "o", "n", "s", "t", "r", "u", "c", "t", "o", "r">>

V_v1 == Str(<<"v", "1">>)
V_v2 == Str(<<"v", "2">>)
V_Aliya == Str(<<"A", "l", "i", "y", "a">>)
V_32 == Num(32)

C_f1 == Str(<<"f", "1">>)
C_f2 == Str(<<"f", "2">>)
C_first_name == Str(<<"f", "i", "r", "s", "t", "_", "n", "a", "m", "e">>)
C_empty == Str(<<>>)

\* The objects with at most n own properties, keys from ks and values from vs,
\* in every insertion order.
ObjectsOver(ks, vs, n) ==
    {o \in UNION {[1..len -> {Prop(k, v) : k \in ks, v \in vs}] : len \in 0..n} :
        \A i, j \in 1..Len(o) : o[i].key = o[j].key => i = j}

\* The update requests: those of the unit tests and of the documentation
\* (sql.test.js, the @example of sql.js), and every request of at most
\* MaxKeys keys over a few names, two of them array indices and one a name
\* that Object.prototype also carries.  The names are identifiers, as the
\* field names of every caller are: none holds a quote or the ", " that
\* separates the segments.
RequestKeys == {K_f1, K_jsF2, K_2, K_10, K_constructor}

RequestValues == {V_v1, V_32}

UpdateRequests ==
    ObjectsOver(RequestKeys, RequestValues, MaxKeys)
        \cup {<<Prop(K_f1, V_v1), Prop(K_jsF2, V_v2)>>,
              <<Prop(K_firstName, V_Aliya), Prop(K_age, V_32)>>}

\* The translation tables: each of f1, jsF2, fF2 absent or mapped (f1
\* possibly to the empty string), and the table of the documentation.
TranslationTables ==
    {a \o b \o c :
        a \in {<<>>, <<Prop(K_f1, C_f1)>>, <<Prop(K_f1, C_empty)>>},
        b \in {<<>>, <<Prop(K_jsF2, C_f2)>>},
        c \in {<<>>, <<Prop(K_fF2, C_f2)>>}}
        \cup {<<Prop(K_firstName, C_first_name)>>}

U_u1 == Str(<<"u", "1">>)
U_u2 == Str(<<"u", "2">>)

\* The usernames calls are made with: one stored at the start, one not.
Usernames == {U_u1, U_u2}

\* The job ids calls are made with: one stored at the start, one not.
JobIds == {Num(1), Num(2)}

UserRow(username, password, firstName, lastName, email, isAdmin) ==
    [c \in UserColumns |->
        CASE c = S_username -> username
          [] c = S_password -> password
          [] c = S_first_name -> firstName
          [] c = S_last_name -> lastName
          [] c = S_email -> email
          [] c = S_is_admin -> isAdmin]

JobRow(id, title, salary, equity, companyHandle) ==
    [c \in JobColumns |->
        CASE c = S_id -> id
          [] c = S_title -> title
          [] c = S_salary -> salary
          [] c = S_equity -> equity
          [] c = S_company_handle -> companyHandle]

CompanyRow(handle, name, description, numEmployees, logoUrl) ==
    [c \in CompanyColumns |->
        CASE c = S_handle -> handle
          [] c = S_name -> name
          [] c = S_description -> description
          [] c = S_num_employees -> numEmployees
          [] c = S_logo_url -> logoUrl]

\* The passwords users supply.
PW_pw1 == <<"p", "w", "1">>
PW_pw2 == <<"p", "w", "2">>
PW_empty == <<>>

Row_u1 ==
    UserRow(U_u1, Str(BcryptHash(PW_pw1, <<"s", "1">>)), Str(<<"U", "1", "F">>),
            Str(<<"U", "1", "L">>), Str(<<"u", "1", "@", "x">>), Bool(FALSE))

Row_u2 ==
    UserRow(U_u2, Str(BcryptHash(PW_pw2, <<"s", "2">>)), Str(<<"U", "2", "F">>),
            Str(<<"U", "2", "L">>), Str(<<"u", "2", "@", "x">>), Bool(TRUE))

Row_job1 ==
    JobRow(Num(1), Str(<<"j", "1">>), Num(100), Str(<<"0", ".", "1">>), Str(<<"c", "1">>))

\* The users tables a behaviour starts from: u1 registered, u2 registered or not.
InitialUsers == {{Row_u1}, {Row_u1, Row_u2}}

\* The jobs tables a behaviour starts from: job 1 created or not, never job 2.
InitialJobs == {{Row_job1}, {}}

InitialCompanies ==
    {CompanyRow(Str(<<"c", "1">>), Str(<<"C", "1">>), Str(<<"D", "e", "s", "c", "1">>),
                Num(1), Str(<<"h", "t", "t", "p", ":", "/", "/", "c", "1">>))}

NoCall ==
    [op |-> "none", id |-> Null, data |-> <<>>, dataAfter |-> <<>>,
     outcome |-> Return(Undefined), statements |-> <<>>]

\* No request is being served.
NoRequest == [at |-> "idle"]

\* The passwords the stored users of a table were registered with.
RegisteredWith(table) ==
    [u \in Usernames |->
        IF \E r \in table : r[S_username] = u
        THEN <<IF u = U_u1 THEN PW_pw1 ELSE PW_pw2>>
        ELSE <<>>]

\* The password last supplied for a username, after a call that was given
\* data for it and returned.
SuppliedBy(username, data, done) ==
    IF done.outcome.kind = "return" /\ HasOwn(data, S_password)
    THEN [supplied EXCEPT ![username] = <<OwnVal(data, S_password).str>>]
    ELSE supplied

InitStore ==
    /\ users \in InitialUsers
    /\ jobs \in InitialJobs
    /\ companies = InitialCompanies
    /\ call = NoCall
    /\ nOps = 0
    /\ supplied = RegisteredWith(users)
    /\ http = NoRequest

InitSql ==
    /\ dataToUpdate \in UpdateRequests
    /\ jsToSql \in TranslationTables
    /\ sqlCalls = <<>>
    /\ users = {Row_u1}
    /\ jobs = {Row_job1}
    /\ companies = InitialCompanies
    /\ call = NoCall
    /\ nOps = 0
    /\ supplied = RegisteredWith(users)
    /\ http = NoRequest

\* The call as it would run if the builder took the keys out of the request
\* while it walks them (keys.shift() on the request's own key list).
SqlCallConsuming ==
    /\ Len(sqlCalls) < MaxCalls
    /\ sqlCalls' = Append(sqlCalls, sqlForPartialUpdate(dataToUpdate, jsToSql))
    /\ dataToUpdate' = <<>>
    /\ UNCHANGED <<jsToSql, users, jobs, companies, call, nOps, supplied, http>>

\* One call sqlForPartialUpdate(dataToUpdate, jsToSql): the function reads its
\* two arguments and assigns to nothing but its own locals.
SqlCall ==
    /\ Len(sqlCalls) < MaxCalls
    /\ sqlCalls' = Append(sqlCalls, sqlForPartialUpdate(dataToUpdate, jsToSql))
    /\ UNCHANGED <<dataToUpdate, jsToSql, users, jobs, companies, call, nOps, supplied, http>>

NextSql == SqlCall

SpecSql == InitSql /\ [][NextSql]_vars

----------------------------------------------------------------------------
(* The model classes at work: up to MaxOps calls, one after the other.     *)

\* The fields a user update may name, each with a value to set; the
\* password also as the empty string.
UserUpdateProps ==
    {Prop(S_firstName, Str(<<"F", "2">>)), Prop(S_lastName, Str(<<"L", "2">>)),
     Prop(S_password, Str(<<"p", "w", "2">>)), Prop(S_password, Str(<<>>)),
     Prop(S_email, Str(<<"e", "2", "@", "x">>)), Prop(S_isAdmin, Bool(TRUE))}

\* The fields a job update may name, each with a value to set.
JobUpdateProps ==
    {Prop(S_title, Str(<<"j", "2">>)), Prop(S_salary, Num(200)),
     Prop(S_equity, Str(<<"0", ".", "2">>))}

\* The position of a field name in the order requests list their fields.
FieldRank(k) ==
    CASE k = S_firstName -> 1 [] k = S_lastName -> 2 [] k = S_password -> 3
      [] k = S_email -> 4 [] k = S_isAdmin -> 5
      [] k = S_title -> 6 [] k = S_salary -> 7 [] k = S_equity -> 8

\* The requests of at most n of the given fields, listed in FieldRank order.
RequestsOver(props, n) ==
    {o \in UNION {[1..len -> props] : len \in 0..n} :
        \A i, j \in 1..Len(o) : i < j => FieldRank(o[i].key) < FieldRank(o[j].key)}

UserUpdateRequests == RequestsOver(UserUpdateProps, MaxKeys)

JobUpdateRequests == RequestsOver(JobUpdateProps, MaxKeys)

Init ==
    /\ dataToUpdate = <<>>
    /\ jsToSql = <<>>
    /\ sqlCalls = <<>>
    /\ InitStore

Called(op, id, data, done) ==
    [op |-> op, id |-> id, data |-> data, dataAfter |-> done.data,
     outcome |-> done.outcome, statements |-> done.statements]

UserGet ==
    /\ nOps < MaxOps
    /\ \E username \in Usernames :
          \E done \in {UserGetCall(username, users)} :
            /\ nOps' = nOps + 1
            /\ call' = Called("User.get", username, <<>>, done)
            /\ UNCHANGED <<users, jobs, companies, dataToUpdate, jsToSql, sqlCalls,
                           supplied, http>>

UserUpdate ==
    /\ nOps < MaxOps
    /\ \E username \in Usernames, data \in UserUpdateRequests, salt \in Salts :
          \E done \in {UserUpdateCall(username, data, salt, users)} :
            /\ nOps' = nOps + 1
            /\ call' = Called("User.update", username, data, done)
            /\ users' = done.table
            /\ supplied' = SuppliedBy(username, data, done)
            /\ UNCHANGED <<jobs, companies, dataToUpdate, jsToSql, sqlCalls, http>>

JobGet ==
    /\ nOps < MaxOps
    /\ \E id \in JobIds :
          \E done \in {JobGetCall(id, jobs, companies)} :
            /\ nOps' = nOps + 1
            /\ call' = Called("Job.get", id, <<>>, done)
            /\ UNCHANGED <<users, jobs, companies, dataToUpdate, jsToSql, sqlCalls,
                           supplied, http>>

JobUpdate ==
    /\ nOps < MaxOps
    /\ \E id \in JobIds, data \in JobUpdateRequests :
          \E done \in {JobUpdateCall(id, data, jobs)} :
            /\ nOps' = nOps + 1
            /\ call' = Called("Job.update", id, data, done)
            /\ jobs' = done.table
            /\ UNCHANGED <<users, companies, dataToUpdate, jsToSql, sqlCalls,
                           supplied, http>>

Next ==
    \/ UserGet
    \/ UserUpdate
    \/ JobGet
    \/ JobUpdate

Spec == Init /\ [][Next]_vars

----------------------------------------------------------------------------
(* Properties of sqlForPartialUpdate, read off the recorded calls.  Each   *)
(* is stated of the call made last: every call is the last one in the     *)
(* state that follows it.                                                  *)

Returned(c) == sqlCalls[c].kind = "return"

Result(c) == sqlCalls[c].value[1]

\* C1: in every returned record, the i-th segment of setCols (in Object.keys
\* order) carries the placeholder $i (1-based), the value that placeholder
\* refers to, values[i], is the request's value for the i-th key, and the
\* segment names the column of that same key.
C1_PlaceholdersAlignWithValues ==
    \A c \in {Len(sqlCalls)} \ {0} :
        Returned(c) =>
            LET keys == ObjectKeys(dataToUpdate)
                segs == Segments(Result(c).setCols)
                vals == Result(c).values
            IN  \A i \in 1..Len(keys) :
                    /\ i <= Len(segs)
                    /\ IsSegment(segs[i])
                    /\ SegmentPlaceholder(segs[i]) = i
                    /\ SegmentPlaceholder(segs[i]) <= Len(vals)
                    /\ vals[SegmentPlaceholder(segs[i])] = OwnVal(dataToUpdate, keys[i])
                    /\ SegmentColumn(segs[i]) = ColumnName(jsToSql, keys[i])

\* A call returned for a request whose enumeration order is not its insertion
\* order (an array-index key inserted after a name).
C1_Witness ==
    /\ Len(sqlCalls) >= 1
    /\ Returned(1)
    /\ Len(dataToUpdate) = 2
    /\ ObjectKeys(dataToUpdate)[1] # dataToUpdate[1].key

\* C2: the quoted column name of key k's segment is m[k] whenever k is a key
\* of m (the empty string included), and k itself whenever k is not a key of m.
C2_ColumnIsTableEntryOrKey ==
    \A c \in {Len(sqlCalls)} \ {0} :
        Returned(c) =>
            LET keys == ObjectKeys(dataToUpdate)
                segs == Segments(Result(c).setCols)
            IN  \A i \in 1..Len(keys) :
                    /\ i <= Len(segs)
                    /\ SegmentColumn(segs[i]) =
                          IF HasOwn(jsToSql, keys[i])
                          THEN OwnVal(jsToSql, keys[i]).str
                          ELSE keys[i]

\* C3: a request with no keys makes the call throw BadRequestError "No data"
\* and return nothing, whatever the table; a request with a key never throws.
C3_EmptyRequestThrows ==
    \A c \in {Len(sqlCalls)} \ {0} :
        /\ Len(dataToUpdate) = 0 =>
              /\ sqlCalls[c].kind = "throw"
              /\ sqlCalls[c].error = "BadRequestError"
              /\ sqlCalls[c].message = MsgNoData
              /\ sqlCalls[c].value = <<>>
        /\ Len(dataToUpdate) >= 1 =>
              /\ sqlCalls[c].kind = "return"
              /\ sqlCalls[c].error # "BadRequestError"

\* The call was made on an empty request and a table that is not empty.
C3_Witness ==
    /\ Len(sqlCalls) >= 1
    /\ Len(dataToUpdate) = 0
    /\ Len(jsToSql) >= 1
    /\ sqlCalls[1].kind = "throw"

\* C4: in every returned record, setCols has as many ", "-separated segments
\* as the request has keys, and values has that length too.
C4_SegmentAndValueCounts ==
    \A c \in {Len(sqlCalls)} \ {0} :
        Returned(c) =>
            /\ Len(Segments(Result(c).setCols)) = Cardinality(OwnKeySet(dataToUpdate))
            /\ Len(Result(c).values) = Cardinality(OwnKeySet(dataToUpdate))

\* A call returned for a request of two keys.
C4_Witness ==
    /\ Len(sqlCalls) >= 1
    /\ Returned(1)
    /\ Cardinality(OwnKeySet(dataToUpdate)) = 2
    /\ Len(Segments(Result(1).setCols)) = 2

\* The requests with the keys of d, in d's order, and any values.
SameKeys(d) ==
    {[i \in 1..Len(d) |-> Prop(d[i].key, vs[i])] :
        vs \in [1..Len(d) -> RequestValues \cup {V_v2}]}

\* C5: setCols does not depend on the request's values: every request with
\* the same keys in the same order gives, with the same table, the very
\* setCols that was returned; the values come back in values alone.
C5_SetColsIndependentOfValues ==
    \A c \in {Len(sqlCalls)} \ {0} :
        Returned(c) =>
            /\ \A d2 \in SameKeys(dataToUpdate) :
                  LET other == sqlForPartialUpdate(d2, jsToSql)
                  IN  /\ other.kind = "return"
                      /\ other.value[1].setCols = Result(c).setCols
            /\ Result(c).values = ObjectValues(dataToUpdate)

\* A call returned, and some request differs from its request in a value only.
C5_Witness ==
    /\ Len(sqlCalls) >= 1
    /\ Returned(1)
    /\ \E d2 \in SameKeys(dataToUpdate) :
          \E i \in 1..Len(d2) : d2[i].val # dataToUpdate[i].val

Example1Data == <<Prop(K_f1, V_v1)>>
Example1Table == <<Prop(K_f1, C_f1), Prop(K_fF2, C_f2)>>
Example2Data == <<Prop(K_f1, V_v1), Prop(K_jsF2, V_v2)>>
Example2Table == <<Prop(K_jsF2, C_f2)>>
Example3Data == <<Prop(K_firstName, V_Aliya), Prop(K_age, V_32)>>
Example3Table == <<Prop(K_firstName, C_first_name)>>

Example1SetCols == <<"\"", "f", "1", "\"", "=", "$", "1">>
Example2SetCols ==
    <<"\"", "f", "1", "\"", "=", "$", "1", ",", " ", "\"", "f", "2", "\"", "=", "$", "2">>
Example3SetCols ==
    <<"\"", "f", "i", "r", "s", "t", "_", "n", "a", "m", "e", "\"", "=", "$", "1", ",", " ",
      "\"", "a", "g", "e", "\"", "=", "$", "2">>

\* The text "<col>"=$<n> written out from a segment's two parts.
Rendered(seg) ==
    <<"\"">> \o SegmentColumn(seg) \o <<"\"", "=", "$">> \o NatToString(SegmentPlaceholder(seg))

\* C6: setCols is exactly its segments "<col>"=$<n>, the column name in
\* double quotes, joined by ", " in key order with nothing before, between
\* or after; and the three documented examples give the documented records.
C6_SetColsFormat ==
    \A c \in {Len(sqlCalls)} \ {0} :
        /\ Returned(c) =>
              LET segs == Segments(Result(c).setCols)
                  keys == ObjectKeys(dataToUpdate)
              IN  /\ Len(segs) = Len(keys)
                  /\ \A i \in 1..Len(segs) :
                        /\ IsSegment(segs[i])
                        /\ Rendered(segs[i]) = segs[i]
                        /\ SegmentColumn(segs[i]) = ColumnName(jsToSql, keys[i])
                        /\ SegmentPlaceholder(segs[i]) = i
        /\ (dataToUpdate = Example1Data /\ jsToSql = Example1Table) =>
              sqlCalls[c] = Return([setCols |-> Example1SetCols, values |-> <<V_v1>>])
        /\ (dataToUpdate = Example2Data /\ jsToSql = Example2Table) =>
              sqlCalls[c] = Return([setCols |-> Example2SetCols, values |-> <<V_v1, V_v2>>])
        /\ (dataToUpdate = Example3Data /\ jsToSql = Example3Table) =>
              sqlCalls[c] = Return([setCols |-> Example3SetCols, values |-> <<V_Aliya, V_32>>])

\* The call of the documented example was made.
C6_Witness ==
    /\ Len(sqlCalls) >= 1
    /\ dataToUpdate = Example3Data
    /\ jsToSql = Example3Table

----------------------------------------------------------------------------
(* Properties of User.update, Job.update, User.get and Job.get, read off   *)
(* the call made last and the step that made it.                           *)

IsUpdate(c) == c.op \in {"User.update", "Job.update"}

\* C8: an update with n >= 1 keys sends one statement whose SET clause uses
\* the placeholders $1..$n in order, whose WHERE condition uses $(n+1), and
\* whose n+1 bound values are the n request values (the password hashed) in
\* key order followed by the identifier; no SET placeholder is $(n+1).
C8_UpdateStatementPlaceholders ==
    (IsUpdate(call) /\ Len(call.data) >= 1) =>
        /\ Len(call.statements) = 1
        /\ LET stmt == call.statements[1]
               n == Len(call.data)
               segs == Segments(stmt.set)
               keys == ObjectKeys(call.dataAfter)
           IN  /\ Len(segs) = n
               /\ \A i \in 1..n :
                     /\ IsSegment(segs[i])
                     /\ SegmentPlaceholder(segs[i]) = i
                     /\ stmt.values[i] = OwnVal(call.dataAfter, keys[i])
               /\ IsPlaceholder(stmt.where.placeholder)
               /\ PlaceholderNumber(stmt.where.placeholder) = n + 1
               /\ Len(stmt.values) = n + 1
               /\ stmt.values[n + 1] = call.id

\* User.update changed two fields of a stored user.
C8_Witness ==
    /\ call.op = "User.update"
    /\ Len(call.data) = 2
    /\ call.outcome.kind = "return"

\* C9: an update called with data of no keys throws the BadRequestError of
\* sqlForPartialUpdate, sends no statement, and leaves users and jobs as
\* they were.
C9_EmptyUpdateRejected ==
    [][(nOps' = nOps + 1 /\ IsUpdate(call') /\ Len(call'.data) = 0) =>
          /\ call'.outcome = Throw("BadRequestError", MsgNoData)
          /\ call'.statements = <<>>
          /\ users' = users
          /\ jobs' = jobs]_vars

\* Job.update was called with no keys on a stored job.
C9_Witness ==
    /\ call.op = "Job.update"
    /\ Len(call.data) = 0
    /\ \E r \in jobs : r[S_id] = call.id
    /\ call.outcome.error = "BadRequestError"

\* The record the call's identifier names is stored in the tables given.
Stored(c, userTable, jobTable) ==
    IF c.op \in {"User.update", "User.get"}
    THEN \E r \in userTable : r[S_username] = c.id
    ELSE \E r \in jobTable : r[S_id] = c.id

IsGetOrUpdate(c) == c.op \in {"User.update", "Job.update", "User.get", "Job.get"}

\* C10 as claimed: every update or get on an identifier that names no stored
\* record throws NotFoundError and leaves the tables unchanged, and none on
\* an identifier that names a stored record throws NotFoundError.
C10_NotFoundWheneverUnmatched ==
    [][(nOps' = nOps + 1 /\ IsGetOrUpdate(call')) =>
          /\ ~Stored(call', users, jobs) =>
                /\ call'.outcome.error = "NotFoundError"
                /\ users' = users
                /\ jobs' = jobs
          /\ Stored(call', users, jobs) => call'.outcome.error # "NotFoundError"]_vars

\* C10 as amended: a get, or an update whose data has at least one key, on
\* an identifier that names no stored record throws NotFoundError; an update
\* whose data has no key throws BadRequestError there; either way the tables
\* are unchanged; and no call on an identifier that names a stored record
\* throws NotFoundError.
C10_NotFoundUnlessNoData ==
    [][(nOps' = nOps + 1 /\ IsGetOrUpdate(call')) =>
          /\ ~Stored(call', users, jobs) =>
                /\ call'.outcome.kind = "throw"
                /\ call'.outcome.error =
                      IF IsUpdate(call') /\ Len(call'.data) = 0
                      THEN "BadRequestError" ELSE "NotFoundError"
                /\ users' = users
                /\ jobs' = jobs
          /\ Stored(call', users, jobs) => call'.outcome.error # "NotFoundError"]_vars

\* User.update was called with a field to change on a username that is not
\* stored, and threw NotFoundError.
C10_Witness ==
    /\ call.op = "User.update"
    /\ Len(call.data) >= 1
    /\ ~Stored(call, users, jobs)
    /\ call.outcome.error = "NotFoundError"

----------------------------------------------------------------------------
(* The frame of a partial update.                                          *)

\* The column a documented field of an update request names.
ColumnOfField(k) ==
    CASE k = S_firstName -> S_first_name
      [] k = S_lastName -> S_last_name
      [] k = S_isAdmin -> S_is_admin
      [] OTHER -> k

NamedColumns(data) == {ColumnOfField(data[i].key) : i \in 1..Len(data)}

\* The one row of tableAfter standing where row stood in tableBefore keeps
\* the key columns and every column outside named; all other rows are the same.
FrameKept(tableBefore, tableAfter, keyCol, id, columns, fixed, named) ==
    \E r \in tableBefore, q \in tableAfter :
        /\ r[keyCol] = id
        /\ \A c \in fixed : q[c] = r[c]
        /\ \A c \in columns \ named : q[c] = r[c]
        /\ tableAfter \ {q} = tableBefore \ {r}

\* C11: after User.update (Job.update) returns, every column of the record
\* that no key of data names has the value it had, the record's username
\* (id and company_handle) is the same, and every other record of users,
\* jobs and companies is the same.
C11_PartialUpdateFrame ==
    [][(nOps' = nOps + 1 /\ IsUpdate(call') /\ call'.outcome.kind = "return") =>
          /\ companies' = companies
          /\ IF call'.op = "User.update"
             THEN /\ jobs' = jobs
                  /\ FrameKept(users, users', S_username, call'.id, UserColumns,
                               {S_username}, NamedColumns(call'.data))
             ELSE /\ users' = users
                  /\ FrameKept(jobs, jobs', S_id, call'.id, JobColumns,
                               {S_id, S_company_handle}, NamedColumns(call'.data))]_vars

\* User.update changed the last name of one of two stored users.
C11_Witness ==
    /\ call.op = "User.update"
    /\ call.outcome.kind = "return"
    /\ ObjectKeys(call.data) = <<S_lastName>>
    /\ Cardinality(users) = 2
    /\ \E r \in users : r[S_username] = call.id /\ r[S_last_name] = Str(<<"L", "2">>)

----------------------------------------------------------------------------
(* The User class at work: up to MaxUserOps calls of authenticate,         *)
(* register, findAll, get, update and remove, one after the other, on the  *)
(* users table.                                                            *)

\* The objects User.register is called with.
RegisterData(username, password, isAdmin) ==
    <<Prop(S_username, username), Prop(S_password, Str(password)),
      Prop(S_firstName, Str(<<"F", "3">>)), Prop(S_lastName, Str(<<"L", "3">>)),
      Prop(S_email, Str(<<"e", "3", "@", "x">>)), Prop(S_isAdmin, isAdmin)>>

RegisterPasswords == {PW_pw1, PW_empty}

LoginPasswords == {PW_pw1, PW_pw2, PW_empty}

\* The data User.update is called with in a sequence of calls: nothing, a
\* new password, the empty password, a new first name.
SeqUpdateRequests ==
    {<<>>, <<Prop(S_password, Str(PW_pw2))>>, <<Prop(S_password, Str(PW_empty))>>,
     <<Prop(S_firstName, Str(<<"F", "2">>))>>}

UserAuthenticate ==
    /\ nOps < MaxUserOps
    /\ \E username \in Usernames, password \in LoginPasswords :
          \E done \in {UserAuthenticateCall(username, Str(password), users)} :
            /\ nOps' = nOps + 1
            /\ call' = Called("User.authenticate", username,
                              <<Prop(S_password, Str(password))>>, done)
            /\ users' = done.table
            /\ UNCHANGED <<jobs, companies, dataToUpdate, jsToSql, sqlCalls,
                           supplied, http>>

UserRegister ==
    /\ nOps < MaxUserOps
    /\ \E username \in Usernames, password \in RegisterPasswords, salt \in Salts :
          \E data \in {RegisterData(username, password, Bool(FALSE))} :
            \E done \in {UserRegisterCall(data, salt, users)} :
              /\ nOps' = nOps + 1
              /\ call' = Called("User.register", username, data, done)
              /\ users' = done.table
              /\ supplied' = SuppliedBy(username, data, done)
              /\ UNCHANGED <<jobs, companies, dataToUpdate, jsToSql, sqlCalls, http>>

UserFindAll ==
    /\ nOps < MaxUserOps
    /\ \E done \in {UserFindAllCall(users)} :
          /\ nOps' = nOps + 1
          /\ call' = Called("User.findAll", Null, <<>>, done)
          /\ users' = done.table
          /\ UNCHANGED <<jobs, companies, dataToUpdate, jsToSql, sqlCalls,
                         supplied, http>>

UserGetNext ==
    /\ nOps < MaxUserOps
    /\ \E username \in Usernames :
          \E done \in {UserGetCall(username, users)} :
            /\ nOps' = nOps + 1
            /\ call' = Called("User.get", username, <<>>, done)
            /\ users' = done.table
            /\ UNCHANGED <<jobs, companies, dataToUpdate, jsToSql, sqlCalls,
                           supplied, http>>

UserUpdateNext ==
    /\ nOps < MaxUserOps
    /\ \E username \in Usernames, data \in SeqUpdateRequests, salt \in Salts :
          \E done \in {UserUpdateCall(username, data, salt, users)} :
            /\ nOps' = nOps + 1
            /\ call' = Called("User.update", username, data, done)
            /\ users' = done.table
            /\ supplied' = SuppliedBy(username, data, done)
            /\ UNCHANGED <<jobs, companies, dataToUpdate, jsToSql, sqlCalls, http>>

UserRemove ==
    /\ nOps < MaxUserOps
    /\ \E username \in Usernames :
          \E done \in {UserRemoveCall(username, users)} :
            /\ nOps' = nOps + 1
            /\ call' = Called("User.remove", username, <<>>, done)
            /\ users' = done.table
            /\ supplied' = IF done.outcome.kind = "return"
                           THEN [supplied EXCEPT ![username] = <<>>]
                           ELSE supplied
            /\ UNCHANGED <<jobs, companies, dataToUpdate, jsToSql, sqlCalls, http>>

NextUsers ==
    \/ UserAuthenticate
    \/ UserRegister
    \/ UserFindAll
    \/ UserGetNext
    \/ UserUpdateNext
    \/ UserRemove

SpecUsers == Init /\ [][NextUsers]_vars

----------------------------------------------------------------------------
(* Properties of the User class over sequences of calls.                   *)

\* C12: User.register with a username that is stored throws BadRequestError
\* and leaves the tables as they were, and in every state reached by
\* register, update and remove calls no two stored users share a username.
C12_DuplicateRejectedUsernamesUnique ==
    /\ [](\A r, q \in users : r[S_username] = q[S_username] => r = q)
    /\ [][(nOps' = nOps + 1 /\ call'.op = "User.register"
              /\ \E r \in users : r[S_username] = call'.id) =>
             /\ call'.outcome = Throw("BadRequestError", MsgDuplicate(call'.id))
             /\ users' = users
             /\ jobs' = jobs
             /\ companies' = companies]_vars

\* A second register of a username threw, after the first one stored it.
C12_Witness ==
    /\ nOps = 2
    /\ call.op = "User.register"
    /\ call.outcome.error = "BadRequestError"
    /\ supplied[call.id] \in {<<PW_pw1>>, <<PW_empty>>}
    /\ Cardinality(users) = 2

\* The stored text is a hash of pw.
IsHashOf(pw, text) == \E salt \in Salts : text = BcryptHash(pw, salt)

\* The username of the call is stored in the table with a hash of password.
LoginMatches(c, table) ==
    \E r \in table :
        /\ r[S_username] = c.id
        /\ IsHashOf(OwnVal(c.data, S_password).str, r[S_password].str)

\* C13: User.authenticate throws the same UnauthorizedError, "Invalid
\* username/password", when the username is not stored and when the
\* password is not the one the stored hash was made from; it returns a user,
\* the stored one, only when the username is stored and the password
\* matches; and it leaves every table as it was.
C13_AuthenticateRejectsAlike ==
    [][(nOps' = nOps + 1 /\ call'.op = "User.authenticate") =>
          /\ users' = users
          /\ jobs' = jobs
          /\ companies' = companies
          /\ ~LoginMatches(call', users) =>
                call'.outcome = Throw("UnauthorizedError", MsgInvalidLogin)
          /\ call'.outcome.kind = "return" =>
                /\ LoginMatches(call', users)
                /\ Get(call'.outcome.value[1].props, S_username) = call'.id]_vars

\* A stored user gave the password it had before its last update, and was
\* rejected.
C13_Witness ==
    /\ nOps = 2
    /\ call.op = "User.authenticate"
    /\ \E r \in users : r[S_username] = call.id
    /\ supplied[call.id] = <<PW_pw2>>
    /\ OwnVal(call.data, S_password).str = PW_pw1
    /\ call.outcome.error = "UnauthorizedError"

\* C14 as claimed: in every state reached by register and update calls, the
\* stored password of every user is a bcrypt hash of the password last
\* supplied for that user and is not the supplied string itself, the empty
\* string included.
C14_StoredPasswordsHashed ==
    \A r \in users :
        /\ supplied[r[S_username]] # <<>>
        /\ IsHashOf(supplied[r[S_username]][1], r[S_password].str)
        /\ r[S_password].str # supplied[r[S_username]][1]

\* The same for users whose last supplied password is not the empty string.
C14_NonEmptyPasswordsHashed ==
    \A r \in users :
        /\ supplied[r[S_username]] # <<>>
        /\ supplied[r[S_username]][1] # PW_empty =>
              /\ IsHashOf(supplied[r[S_username]][1], r[S_password].str)
              /\ r[S_password].str # supplied[r[S_username]][1]

\* The user records a call returned: the elements of the array findAll
\* returns, the one object the other calls return.
ReturnedUsers(c) ==
    IF c.outcome.kind # "return" THEN {}
    ELSE IF c.op = "User.findAll"
    THEN {c.outcome.value[1].props[i].val : i \in 1..Len(c.outcome.value[1].props)}
    ELSE {c.outcome.value[1]}

ReturnsUsers(c) ==
    c.op \in {"User.authenticate", "User.register", "User.findAll", "User.get",
              "User.update"}

\* C15: no user record returned by authenticate, register, findAll, get or
\* update has a property named password, and none of its properties holds
\* the text stored in a password column.
C15_NoPasswordReturned ==
    ReturnsUsers(call) =>
        \A u \in ReturnedUsers(call) :
            /\ u.type = "object"
            /\ ~HasOwn(u.props, S_password)
            /\ \A i \in 1..Len(u.props), r \in users :
                  u.props[i].val # r[S_password]

\* findAll returned the records of two stored users.
C15_Witness ==
    /\ call.op = "User.findAll"
    /\ Cardinality(ReturnedUsers(call)) = 2
    /\ \E u \in ReturnedUsers(call) : Get(u.props, S_username) = U_u2

----------------------------------------------------------------------------
(* jsonwebtoken.  A token is "h.<payload>.<signature>": the payload is a   *)
(* code for the claims signed, the signature the key it was signed with.   *)

SECRET_KEY == <<"k">>

OtherKey == <<"x">>

JwtSign(code, key) == <<"h", ".">> \o code \o <<".">> \o key

\* The claims a payload code stands for: { username, isAdmin }.
Claims(username, isAdmin) == Obj(<<Prop(S_username, username), Prop(S_isAdmin, isAdmin)>>)

PayloadCodes == {<<"1">>, <<"2">>}

JwtDecode(code) ==
    IF code = <<"1">> THEN Claims(U_u1, Bool(FALSE)) ELSE Claims(U_u2, Bool(TRUE))

\* jwt.verify(token, key): <<payload>>, or <<>> when it throws.
JwtVerify(token, key) ==
    LET parts == Split(token, <<".">>)
    IN  IF /\ Len(parts) = 3
           /\ parts[1] = <<"h">>
           /\ parts[2] \in PayloadCodes
           /\ parts[3] = key
        THEN <<JwtDecode(parts[2])>>
        ELSE <<>>

----------------------------------------------------------------------------
(* middleware/auth.js                                                      *)

S_Bearer == <<"B", "e", "a", "r", "e", "r", " ">>
S_bearer == <<"b", "e", "a", "r", "e", "r", " ">>

StartsWith(s, prefix) ==
    /\ Len(s) >= Len(prefix)
    /\ SubSeq(s, 1, Len(prefix)) = prefix

\* authHeader.replace(/^[Bb]earer /, "")
ReplaceBearer(authHeader) ==
    IF StartsWith(authHeader, S_Bearer) \/ StartsWith(authHeader, S_bearer)
    THEN SubSeq(authHeader, Len(S_Bearer) + 1, Len(authHeader))
    ELSE authHeader

\* String.prototype.trim
RECURSIVE Trim(_)
Trim(s) ==
    IF s = <<>> THEN s
    ELSE IF s[1] = " " THEN Trim(Tail(s))
    ELSE IF s[Len(s)] = " " THEN Trim(SubSeq(s, 1, Len(s) - 1))
    ELSE s

NextPlain == [error |-> ""]

NextError(name) == [error |-> name]

\* authenticateJWT setting res.locals.user from the header text unverified.
authenticateJWTUnverified(authorization) ==
    IF authorization # <<>> /\ authorization[1] # <<>>
    THEN [user |-> <<Claims(U_u2, Bool(TRUE))>>, next |-> <<NextPlain>>]
    ELSE [user |-> <<>>, next |-> <<NextPlain>>]

\* authenticateJWT(req, res, next): res.locals.user afterwards, <<>> when
\* unset, and the calls of next it made.  authorization is <<>> when the
\* request has no such header, <<text>> when it has.
authenticateJWT(authorization) ==
    LET authHeader == IF authorization = <<>> THEN Undefined ELSE Str(authorization[1])
    IN  IF Truthy(authHeader)
        THEN LET token == Trim(ReplaceBearer(authHeader.str))
                 payload == JwtVerify(token, SECRET_KEY)
             IN  IF payload = <<>>
                 THEN [user |-> <<>>, next |-> <<NextPlain>>]
                 ELSE [user |-> payload, next |-> <<NextPlain>>]
        ELSE [user |-> <<>>, next |-> <<NextPlain>>]

\* ensureAdmin letting every logged-in user through.
ensureAdminLoggedInOnly(user) ==
    IF user = <<>> THEN <<NextError("UnauthorizedError")>> ELSE <<NextPlain>>

\* ensureAdmin(req, res, next): the call of next it makes.
ensureAdmin(user) ==
    IF user = <<>> \/ ~Truthy(Get(user[1].props, S_isAdmin))
    THEN <<NextError("UnauthorizedError")>>
    ELSE <<NextPlain>>

\* ensureCorrectUserOrAdmin letting every logged-in user through.
ensureCorrectUserOrAdminLoggedInOnly(user, username) ==
    IF user = <<>> THEN <<NextError("UnauthorizedError")>> ELSE <<NextPlain>>

\* ensureCorrectUserOrAdmin(req, res, next): the call of next it makes;
\* username is req.params.username.
ensureCorrectUserOrAdmin(user, username) ==
    IF ~(user # <<>> /\ (Truthy(Get(user[1].props, S_isAdmin))
                           \/ Get(user[1].props, S_username) = username))
    THEN <<NextError("UnauthorizedError")>>
    ELSE <<NextPlain>>

----------------------------------------------------------------------------
(* models/job.js: create and remove; models/company.js                     *)

\* The value a serial id column takes in the next row inserted.
NextSerial(table, idCol) ==
    IF table = {} THEN Num(1)
    ELSE Num(1 + (CHOOSE n \in {r[idCol].num : r \in table} :
                     \A r \in table : r[idCol].num <= n))

\* INSERT into a table whose id column is serial.
DbInsertSerial(table, stmt, idCol) ==
    DbInsert(table, [stmt EXCEPT !.columns = <<idCol>> \o @,
                                 !.values = <<NextSerial(table, idCol)>> \o @])

\* Job.create(data) on the jobs table.
JobCreateCall(data, table) ==
    LET insert == [verb |-> "INSERT", table |-> "jobs",
                   columns |-> <<S_title, S_salary, S_equity, S_company_handle>>,
                   returning |-> JobSelectList,
                   values |-> <<Get(data, S_title), Get(data, S_salary),
                                Get(data, S_equity), Get(data, S_companyHandle)>>]
        result == DbInsertSerial(table, insert, S_id)
    IN  Done(data, Return(Obj(result.rows[1])), <<insert>>, result.table)

\* Job.remove(id) on the jobs table.
JobRemoveCall(id, table) ==
    LET query == [verb |-> "DELETE", table |-> "jobs", set |-> <<>>,
                  where |-> [col |-> S_id, placeholder |-> <<"$", "1">>],
                  returning |-> <<Col(S_id, S_id)>>, values |-> <<id>>]
        result == DbDelete(table, query)
    IN  IF FirstRow(result.rows) = <<>>
        THEN Done(<<>>, Throw("NotFoundError", MsgNoJob(id)), <<query>>, table)
        ELSE Done(<<>>, Return(Undefined), <<query>>, result.table)

\* Company.create(data): the company is stored unless its handle is taken.
CompanyCreateCall(data, table) ==
    IF \E r \in table : r[S_handle] = Get(data, S_handle)
    THEN Done(data, Throw("BadRequestError", <<>>), <<>>, table)
    ELSE Done(data, Return(Obj(data)), <<>>,
              table \cup {CompanyRow(Get(data, S_handle), Get(data, S_name),
                                     Get(data, S_description), Get(data, S_numEmployees),
                                     Get(data, S_logoUrl))})

\* Company.update(handle, data) for data naming the name of the company.
CompanyUpdateCall(handle, data, table) ==
    IF data = <<>> THEN Done(data, Throw("BadRequestError", MsgNoData), <<>>, table)
    ELSE IF ~\E r \in table : r[S_handle] = handle
    THEN Done(data, Throw("NotFoundError", <<>>), <<>>, table)
    ELSE Done(data, Return(Obj(data)), <<>>,
              {IF r[S_handle] = handle /\ HasOwn(data, S_name)
               THEN [r EXCEPT ![S_name] = OwnVal(data, S_name)] ELSE r : r \in table})

\* Company.remove(handle)
CompanyRemoveCall(handle, table) ==
    IF ~\E r \in table : r[S_handle] = handle
    THEN Done(<<>>, Throw("NotFoundError", <<>>), <<>>, table)
    ELSE Done(<<>>, Return(Undefined), <<>>, {r \in table : r[S_handle] # handle})

----------------------------------------------------------------------------
(* app.js and the routes of routes/jobs.js, routes/companies.js and        *)
(* routes/users.js that have a guard, with GET /jobs/:id as one that has   *)
(* none.  A request passes authenticateJWT, then the guard of its route,   *)
(* then the handler, and is answered.                                      *)

AdminRoutes ==
    {"POST /jobs", "PATCH /jobs/:id", "DELETE /jobs/:id",
     "POST /companies", "PATCH /companies/:handle", "DELETE /companies/:handle",
     "POST /users", "GET /users"}

UsernameRoutes ==
    {"GET /users/:username", "PATCH /users/:username", "DELETE /users/:username",
     "POST /users/:username/jobs/:id"}

OpenRoutes == {"GET /jobs/:id"}

\* The routes whose handler validates req.body against a JSON schema.
ValidatingRoutes ==
    {"POST /jobs", "PATCH /jobs/:id", "POST /companies", "PATCH /companies/:handle",
     "POST /users", "PATCH /users/:username"}

\* The middleware a route names before its handler.
Guard(route) ==
    IF route \in AdminRoutes THEN "ensureAdmin"
    ELSE IF route \in UsernameRoutes THEN "ensureCorrectUserOrAdmin"
    ELSE "none"

\* The datastore reading a text parameter as an integer.
PgInteger(v) == IF v.type = "string" THEN Num(StringToNat(v.str)) ELSE v

\* What a handler did: the model operations it invoked, what it passed to
\* res.json or to next, and the tables afterwards.
Handled(invoked, outcome, userTable, jobTable, companyTable, passwords) ==
    [invoked |-> invoked, outcome |-> outcome, users |-> userTable, jobs |-> jobTable,
     companies |-> companyTable, supplied |-> passwords]

\* The handler of the route of req, run on the tables given.
RouteHandler(req, salt, userTable, jobTable, companyTable) ==
    LET Same(invoked, outcome) ==
            Handled(invoked, outcome, userTable, jobTable, companyTable, supplied)
        OnUsers(op, done, passwords) ==
            Handled(<<op>>, done.outcome, done.table, jobTable, companyTable, passwords)
        OnJobs(op, done) ==
            Handled(<<op>>, done.outcome, userTable, done.table, companyTable, supplied)
        OnCompanies(op, done) ==
            Handled(<<op>>, done.outcome, userTable, jobTable, done.table, supplied)
    IN  IF req.route \in ValidatingRoutes /\ ~req.valid
        THEN Same(<<>>, Throw("BadRequestError", <<>>))
        ELSE CASE req.route = "POST /jobs" ->
                    OnJobs("Job.create", JobCreateCall(req.body, jobTable))
               [] req.route = "GET /jobs/:id" ->
                    OnJobs("Job.get", JobGetCall(PgInteger(req.id), jobTable, companyTable))
               [] req.route = "PATCH /jobs/:id" ->
                    OnJobs("Job.update", JobUpdateCall(PgInteger(req.id), req.body, jobTable))
               [] req.route = "DELETE /jobs/:id" ->
                    OnJobs("Job.remove", JobRemoveCall(PgInteger(req.id), jobTable))
               [] req.route = "POST /companies" ->
                    OnCompanies("Company.create", CompanyCreateCall(req.body, companyTable))
               [] req.route = "PATCH /companies/:handle" ->
                    OnCompanies("Company.update",
                                CompanyUpdateCall(req.handle, req.body, companyTable))
               [] req.route = "DELETE /companies/:handle" ->
                    OnCompanies("Company.remove", CompanyRemoveCall(req.handle, companyTable))
               [] req.route = "POST /users" ->
                    LET done == UserRegisterCall(req.body, salt, userTable)
                    IN  OnUsers("User.register", done,
                                SuppliedBy(Get(req.body, S_username), req.body, done))
               [] req.route = "GET /users" ->
                    OnUsers("User.findAll", UserFindAllCall(userTable), supplied)
               [] req.route = "GET /users/:username" ->
                    OnUsers("User.get", UserGetCall(req.username, userTable), supplied)
               [] req.route = "PATCH /users/:username" ->
                    LET done == UserUpdateCall(req.username, req.body, salt, userTable)
                    IN  OnUsers("User.update", done,
                                SuppliedBy(req.username, req.body, done))
               [] req.route = "DELETE /users/:username" ->
                    LET done == UserRemoveCall(req.username, userTable)
                    IN  OnUsers("User.remove", done,
                                IF done.outcome.kind = "return"
                                THEN [supplied EXCEPT ![req.username] = <<>>]
                                ELSE supplied)
               [] req.route = "POST /users/:username/jobs/:id" ->
                    Same(<<>>, Throw("TypeError", <<>>))

\* The tokens requests carry: of u1, who is no admin; of u2, an admin; and
\* one naming u2 as admin that another key signed.
T_u1 == JwtSign(<<"1">>, SECRET_KEY)
T_u2 == JwtSign(<<"2">>, SECRET_KEY)
T_forged == JwtSign(<<"2">>, OtherKey)

S_BEARER == <<"B", "E", "A", "R", "E", "R", " ">>

\* The Authorization headers requests carry: none, an empty one, and tokens
\* with and without the scheme word.
Authorizations ==
    {<<>>, << <<>> >>, <<S_Bearer \o T_u1>>, <<S_Bearer \o T_u2>>,
     <<S_bearer \o T_u2 \o <<" ">> >>, <<T_u1>>, <<S_BEARER \o T_u2>>,
     <<S_Bearer \o T_forged>>}

\* The body sent to a route.
BodyOf(route) ==
    CASE route = "POST /jobs" ->
            <<Prop(S_title, Str(<<"j", "3">>)), Prop(S_salary, Num(300)),
              Prop(S_equity, Str(<<"0">>)), Prop(S_companyHandle, Str(<<"c", "1">>))>>
      [] route = "PATCH /jobs/:id" -> <<Prop(S_title, Str(<<"j", "2">>))>>
      [] route = "POST /companies" ->
            <<Prop(S_handle, Str(<<"c", "2">>)), Prop(S_name, Str(<<"C", "2">>)),
              Prop(S_description, Str(<<"D", "2">>)), Prop(S_numEmployees, Num(2)),
              Prop(S_logoUrl, Null)>>
      [] route = "PATCH /companies/:handle" -> <<Prop(S_name, Str(<<"C", "9">>))>>
      [] route = "POST /users" -> RegisterData(U_u2, PW_pw2, Bool(TRUE))
      [] route = "PATCH /users/:username" -> <<Prop(S_firstName, Str(<<"F", "2">>))>>
      [] OTHER -> <<>>

\* The route parameters requests carry: :username, :id, :handle.
ParamsOf(route) ==
    LET P(username, id, handle) == [username |-> username, id |-> id, handle |-> handle]
    IN  IF route \in {"GET /users/:username", "PATCH /users/:username",
                      "DELETE /users/:username"}
        THEN {P(u, Undefined, Undefined) : u \in Usernames}
        ELSE IF route = "POST /users/:username/jobs/:id"
        THEN {P(u, Str(<<"1">>), Undefined) : u \in Usernames}
        ELSE IF route \in {"GET /jobs/:id", "PATCH /jobs/:id", "DELETE /jobs/:id"}
        THEN {P(Undefined, Str(id), Undefined) : id \in {<<"1">>, <<"2">>}}
        ELSE IF route \in {"PATCH /companies/:handle", "DELETE /companies/:handle"}
        THEN {P(Undefined, Undefined, Str(h)) : h \in {<<"c", "1">>, <<"c", "2">>}}
        ELSE {P(Undefined, Undefined, Undefined)}

\* The requests received: valid says whether req.body passes the schema of
\* the route.
Requests ==
    {[route |-> route, username |-> p.username, id |-> p.id, handle |-> p.handle,
      authorization |-> a, body |-> BodyOf(route), valid |-> v] :
        route \in AdminRoutes \cup UsernameRoutes \cup OpenRoutes,
        p \in UNION {ParamsOf(r) : r \in AdminRoutes \cup UsernameRoutes \cup OpenRoutes},
        a \in Authorizations, v \in BOOLEAN}

\* A request as it enters the middleware stack of the app.
Entering(req) ==
    [at |-> "authenticateJWT", req |-> req, user |-> <<>>, jwtNext |-> <<>>,
     guardNext |-> <<>>, ran |-> FALSE, invoked |-> <<>>, outcome |-> Return(Undefined)]

Receive ==
    /\ http.at = "idle"
    /\ nOps < MaxRequests
    /\ \E req \in Requests :
          /\ {[username |-> req.username, id |-> req.id, handle |-> req.handle]}
                \subseteq ParamsOf(req.route)
          /\ req.valid \/ req.route \in ValidatingRoutes
          /\ http' = Entering(req)
    /\ nOps' = nOps + 1
    /\ UNCHANGED <<dataToUpdate, jsToSql, sqlCalls, users, jobs, companies, call, supplied>>

\* app.use(authenticateJWT), then the router finds the route.
AuthenticateJWT ==
    /\ http.at = "authenticateJWT"
    /\ \E done \in {authenticateJWT(http.req.authorization)} :
          http' = [http EXCEPT !.user = done.user, !.jwtNext = done.next,
                               !.at = IF Guard(http.req.route) = "none"
                                      THEN "handler" ELSE "guard"]
    /\ UNCHANGED <<dataToUpdate, jsToSql, sqlCalls, users, jobs, companies, call, nOps,
                   supplied>>

\* Where a request goes after its guard: next(err) skips the handler.
AfterGuard(next) == IF next = <<NextPlain>> THEN "handler" ELSE "respond"

EnsureAdmin ==
    /\ http.at = "guard"
    /\ Guard(http.req.route) = "ensureAdmin"
    /\ \E next \in {ensureAdmin(http.user)} :
          http' = [http EXCEPT !.guardNext = next, !.at = AfterGuard(next)]
    /\ UNCHANGED <<dataToUpdate, jsToSql, sqlCalls, users, jobs, companies, call, nOps,
                   supplied>>

EnsureCorrectUserOrAdmin ==
    /\ http.at = "guard"
    /\ Guard(http.req.route) = "ensureCorrectUserOrAdmin"
    /\ \E next \in {ensureCorrectUserOrAdmin(http.user, http.req.username)} :
          http' = [http EXCEPT !.guardNext = next, !.at = AfterGuard(next)]
    /\ UNCHANGED <<dataToUpdate, jsToSql, sqlCalls, users, jobs, companies, call, nOps,
                   supplied>>

Handle ==
    /\ http.at = "handler"
    /\ \E salt \in Salts :
          \E done \in {RouteHandler(http.req, salt, users, jobs, companies)} :
            /\ http' = [http EXCEPT !.ran = TRUE, !.invoked = done.invoked,
                                    !.outcome = done.outcome, !.at = "respond"]
            /\ users' = done.users
            /\ jobs' = done.jobs
            /\ companies' = done.companies
            /\ supplied' = done.supplied
    /\ UNCHANGED <<dataToUpdate, jsToSql, sqlCalls, call, nOps>>

\* The response is sent, by res.json or by the error handler of the app.
Respond ==
    /\ http.at = "respond"
    /\ http' = NoRequest
    /\ UNCHANGED <<dataToUpdate, jsToSql, sqlCalls, users, jobs, companies, call, nOps,
                   supplied>>

NextRoutes ==
    \/ Receive
    \/ AuthenticateJWT
    \/ EnsureAdmin
    \/ EnsureCorrectUserOrAdmin
    \/ Handle
    \/ Respond

SpecRoutes == Init /\ [][NextRoutes]_vars

----------------------------------------------------------------------------
(* Properties of the middleware and the guarded routes.                    *)

\* The payloads of the tokens the key of the app signed that a header text
\* carries: the text is such a token, after "Bearer " or "bearer " or bare,
\* with or without a space behind it.
VerifiedPayloads(text) ==
    {JwtDecode(code) : code \in
        {c \in PayloadCodes :
            \E scheme \in {<<>>, S_Bearer, S_bearer}, pad \in {<<>>, <<" ">>} :
                text = scheme \o JwtSign(c, SECRET_KEY) \o pad}}

\* C16: once authenticateJWT has run for a request it has called next
\* exactly once, with no error, whatever the Authorization header was; and
\* res.locals.user is the payload of the token when the request has a
\* header whose token verifies, and is unset in every other case.
C16_AuthenticateJWTNeverRejects ==
    /\ http.at = "authenticateJWT" => (http.user = <<>> /\ http.jwtNext = <<>>)
    /\ http.at \in {"guard", "handler", "respond"} =>
          /\ http.jwtNext = <<NextPlain>>
          /\ IF http.req.authorization # <<>>
                /\ VerifiedPayloads(http.req.authorization[1]) # {}
             THEN /\ http.user # <<>>
                  /\ VerifiedPayloads(http.req.authorization[1]) = {http.user[1]}
             ELSE http.user = <<>>

\* A request whose token another key signed went on to its guard with
\* res.locals.user unset.
C16_Witness ==
    /\ http.at = "guard"
    /\ http.req.authorization = <<S_Bearer \o T_forged>>
    /\ http.user = <<>>
    /\ http.jwtNext = <<NextPlain>>

\* res.locals.user is set and its isAdmin is true.
IsAdmin(user) == user # <<>> /\ Get(user[1].props, S_isAdmin) = Bool(TRUE)

Rejected(h) ==
    /\ h.guardNext = <<NextError("UnauthorizedError")>>
    /\ ~h.ran
    /\ h.invoked = <<>>

TablesUnchanged ==
    /\ users' = users
    /\ jobs' = jobs
    /\ companies' = companies

\* C17: on the admin-only routes the handler runs, and the model operation
\* is invoked, only for a request whose res.locals.user is set with isAdmin
\* true; every other request is answered after ensureAdmin passed
\* UnauthorizedError to next, without the handler having run, and no step
\* taken for it changes a table.
C17_AdminRoutesGuarded ==
    /\ []((http.at # "idle" /\ http.req.route \in AdminRoutes) =>
             /\ (http.at = "handler" \/ http.ran \/ http.invoked # <<>>) =>
                   IsAdmin(http.user)
             /\ (http.at = "respond" /\ ~IsAdmin(http.user)) => Rejected(http))
    /\ [][(http.at # "idle" /\ http.req.route \in AdminRoutes /\ ~IsAdmin(http.user)) =>
             TablesUnchanged]_vars

\* A user who is no admin asked for a job to be deleted and was refused.
C17_Witness ==
    /\ http.at = "respond"
    /\ http.req.route = "DELETE /jobs/:id"
    /\ http.user = <<Claims(U_u1, Bool(FALSE))>>
    /\ Rejected(http)
    /\ \E r \in jobs : r[S_id] = PgInteger(http.req.id)

\* The requester is an admin or the user the route names.
IsCorrectUserOrAdmin(h) ==
    /\ h.user # <<>>
    /\ \/ Get(h.user[1].props, S_isAdmin) = Bool(TRUE)
       \/ Get(h.user[1].props, S_username) = h.req.username

\* C18: on the routes under /users/:username the handler runs, and the
\* model operation is invoked, only for a request whose res.locals.user is
\* set and is an admin or the user :username names; every other request is
\* answered after ensureCorrectUserOrAdmin passed UnauthorizedError to next,
\* without any user having been read, and no step taken for it changes a
\* table.
C18_UsernameRoutesGuarded ==
    /\ []((http.at # "idle" /\ http.req.route \in UsernameRoutes) =>
             /\ (http.at = "handler" \/ http.ran \/ http.invoked # <<>>) =>
                   IsCorrectUserOrAdmin(http)
             /\ (http.at = "respond" /\ ~IsCorrectUserOrAdmin(http)) =>
                   /\ Rejected(http)
                   /\ http.outcome = Return(Undefined))
    /\ [][(http.at # "idle" /\ http.req.route \in UsernameRoutes
              /\ ~IsCorrectUserOrAdmin(http)) => TablesUnchanged]_vars

\* User u1, no admin, asked for the stored user u2 to be deleted and was
\* refused.
C18_Witness ==
    /\ http.at = "respond"
    /\ http.req.route = "DELETE /users/:username"
    /\ http.user = <<Claims(U_u1, Bool(FALSE))>>
    /\ http.req.username = U_u2
    /\ \E r \in users : r[S_username] = U_u2
    /\ Rejected(http)

=============================================================================
